---- MODULE Spec2Model ----
(***************************************************************************)
(* Model of src/app.py, the Streamlit dashboard for place names in "The    *)
(* Scholars".  Three parts of the script are modelled:                     *)
(*   - process_chapter_stats (chapter split and alias counting), SpecStats *)
(*   - the top-to-bottom render of the script with its three memoized      *)
(*     loaders, the mandatory-file check and the five tabs, SpecRender     *)
(*   - the keyword search of the Insights tab, SpecSearch                  *)
(*                                                                         *)
(* A Python str is a sequence of one-character strings.  A character that  *)
(* is not ASCII is written by its code point, "u897f" for U+897F; "\n",    *)
(* " ", "*" and "\\" are themselves.                                       *)
(*                                                                         *)
(* Library behaviour the model relies on:                                  *)
(*   - st.cache_data keeps the result of a call, None included, for the    *)
(*     life of the process, keyed by the arguments, and replays the st     *)
(*     elements the call showed; process_chapter_stats is a function of    *)
(*     its argument, so its memoization is not visible and not modelled    *)
(*   - st.stop and an uncaught exception end the script run                *)
(*   - st.selectbox without options returns None                           *)
(*   - DataFrame.melt raises KeyError for id_vars that are not columns     *)
(* A CSV or text file that is present is taken to be readable and the CSV  *)
(* to have the columns the Map tab uses.                                   *)
(***************************************************************************)
EXTENDS Integers, Sequences, FiniteSets, TLC

VARIABLES
    text,          \* process_chapter_stats: the argument
    pc,            \* process_chapter_stats: position in the function
    chapters,      \* process_chapter_stats: result of re.split (line 105)
    ci,            \* process_chapter_stats: index of the for loop (line 107)
    chapter_data,  \* process_chapter_stats: rows appended so far (line 106)
    origin,        \* history: origin[k] is the index in chapters of row k
    csv_file,      \* disk: LOCATIONS_CSV_PATH
    txt_file,      \* disk: TXT_FILE_PATH
    xlsx_file,     \* disk: CHAPTER_INFO_PATH
    cache_map,     \* st.cache_data entries of load_map_data (none or one)
    cache_text,    \* st.cache_data entries of load_text_data
    cache_info,    \* st.cache_data entries of load_chapter_info
    pc_r,          \* script run: the statement the run is at
    first_run,     \* history: this is the first run of the process
    df_map,        \* script run: line 124
    full_text,     \* script run: line 125
    df_info,       \* script run: line 126
    df_stats,      \* script run: line 133
    stats_invoked, \* history: process_chapter_stats was called in this run
    messages,      \* script run: st.error / st.warning / st.info shown
    panels,        \* script run: tabs whose block has been entered
    exception,     \* script run: uncaught exception that ended the run
    details,       \* script run: what the Details tab displays
    search_term,   \* widget state of the text_input, line 278
    shown,         \* paragraphs displayed by the keyword search, line 286
    pc_s           \* keyword search alone: "input" or "shown"

statsVars == <<text, pc, chapters, ci, chapter_data, origin>>
diskVars == <<csv_file, txt_file, xlsx_file>>
cacheVars == <<cache_map, cache_text, cache_info>>
runVars == <<pc_r, first_run, df_map, full_text, df_info, df_stats, stats_invoked,
             messages, panels, exception, details>>
searchVars == <<search_term, shown, pc_s>>
vars == <<statsVars, diskVars, cacheVars, runVars, searchVars>>

-----------------------------------------------------------------------------
(* Bounds of the model *)

\* longest corpus text given to process_chapter_stats
MaxLen == 5

\* longest chapter body of the two-chapter corpus texts
MaxBody == 2

\* characters of the corpus texts: the marker, newline, space, and the
\* characters U+897F U+6E56 U+5DDE, which spell the aliases U+897F U+6E56
\* (Hangzhou) and U+6E56 U+5DDE (Huzhou)
Alphabet == {"*", "\n", " ", "u897f", "u6e56", "u5dde"}

RECURSIVE SeqsUpTo(_, _)
SeqsUpTo(S, n) ==
    IF n = 0 THEN {<< >>}
    ELSE LET shorter == SeqsUpTo(S, n - 1)
         IN  shorter \cup {Append(s, c) : s \in {t \in shorter : Len(t) = n - 1}, c \in S}

\* corpus texts of two chapters, each a line that starts with the marker
TwoChapterTexts ==
    {<<"*">> \o a \o <<"\n", "*">> \o b :
         a, b \in SeqsUpTo(Alphabet \ {"*", "\n"}, MaxBody)}

\* the corpus texts given to process_chapter_stats
StatsTexts == SeqsUpTo(Alphabet, MaxLen) \cup TwoChapterTexts

-----------------------------------------------------------------------------
(* Static data *)

\* LOCATIONS_DB, lines 61-74, in source order
LOCATIONS_DB == <<
    [name |-> "Hangzhou", aliases |-> <<
        <<"u676d", "u5dde">>, <<"u676d", "u57ce">>, <<"u897f", "u6e56">>, <<"u7701", "u57ce">>,
        <<"u6b66", "u6797">>, <<"u9322", "u5858">>, <<"u65b7", "u6cb3", "u982d">>,
        <<"u6e05", "u6ce2", "u9580">>, <<"u4ec1", "u548c">>, <<"u9322", "u5858", "u9580">>,
        <<"u9748", "u96b1">>, <<"u5929", "u7afa">>, <<"u8607", "u5824">>, <<"u96f7", "u5cf0">>,
        <<"u6de8", "u6148">>, <<"u57ce", "u968d", "u5c71">>, <<"u5433", "u5c71">>>>],
    [name |-> "Huzhou", aliases |-> <<
        <<"u6e56", "u5dde">>, <<"u9daf", "u8130", "u6e56">>, <<"u65b0", "u5e02", "u93ae">>,
        <<"u96d9", "u6797">>, <<"u5a41", "u5e9c">>, <<"u70cf", "u7a0b">>>>],
    [name |-> "Beijing", aliases |-> <<
        <<"u5317", "u4eac">>, <<"u4eac", "u5e2b">>, <<"u4eac", "u88cf">>, <<"u4eac", "u57ce">>,
        <<"u90fd", "u9580">>, <<"u9b4f", "u95d5">>, <<"u9577", "u5b89">>,
        <<"u9806", "u5929", "u5e9c">>, <<"u5167", "u5ef7">>, <<"u5165", "u4eac">>,
        <<"u9032", "u4eac">>>>],
    [name |-> "Nanjing", aliases |-> <<
        <<"u5357", "u4eac">>, <<"u91d1", "u9675">>, <<"u767d", "u4e0b">>, <<"u5efa", "u5eb7">>,
        <<"u61c9", "u5929">>>>],
    [name |-> "Yangzhou", aliases |-> <<
        <<"u63da", "u5dde">>, <<"u5ee3", "u9675">>, <<"u7dad", "u63da">>, <<"u6c5f", "u90fd">>>>],
    [name |-> "Jinan", aliases |-> <<
        <<"u6fdf", "u5357">>, <<"u6b77", "u4e0b">>>>],
    [name |-> "Suzhou", aliases |-> <<
        <<"u8607", "u5dde">>, <<"u59d1", "u8607">>, <<"u5433", "u9580">>, <<"u5e73", "u6c5f">>>>],
    [name |-> "Wenzhou", aliases |-> <<
        <<"u6eab", "u5dde">>, <<"u6a02", "u6e05">>>>],
    [name |-> "Shaoxing", aliases |-> <<
        <<"u7d39", "u8208">>, <<"u6703", "u7a3d">>, <<"u8d8a", "u57ce">>>>]
>>

\* title[:6], line 111
TitleCut == 6

-----------------------------------------------------------------------------
(* str methods used by the script *)

\* whitespace removed by str.strip() among the characters modelled
IsSpace(c) == c \in {" ", "\n", "\t", "\r"}

RECURSIVE LStrip(_)
LStrip(s) == IF s # << >> /\ IsSpace(Head(s)) THEN LStrip(Tail(s)) ELSE s

RECURSIVE RStrip(_)
RStrip(s) ==
    IF s # << >> /\ IsSpace(s[Len(s)]) THEN RStrip(SubSeq(s, 1, Len(s) - 1)) ELSE s

\* s.strip()
Strip(s) == RStrip(LStrip(s))

\* sub occurs in s at index p (1-based)
OccursAt(s, sub, p) ==
    /\ p >= 1
    /\ p + Len(sub) - 1 <= Len(s)
    /\ \A i \in 1..Len(sub) : s[p + i - 1] = sub[i]

\* sub in s
Contains(s, sub) == \E p \in 1..(Len(s) + 1) : OccursAt(s, sub, p)

\* s.count(sub) for a non-empty sub: scan from the left, and after an
\* occurrence resume behind it (an index whose character is not the first
\* of sub holds no occurrence)
RECURSIVE CountFrom(_, _, _)
CountFrom(s, sub, p) ==
    IF p + Len(sub) - 1 > Len(s) THEN 0
    ELSE IF s[p] # sub[1] THEN CountFrom(s, sub, p + 1)
    ELSE IF OccursAt(s, sub, p) THEN 1 + CountFrom(s, sub, p + Len(sub))
    ELSE CountFrom(s, sub, p + 1)

\* counts at most one occurrence
StrCount_AtMostOne(s, sub) == IF Contains(s, sub) THEN 1 ELSE 0

StrCount(s, sub) == CountFrom(s, sub, 1)

\* s.replace(c, ''), for a one-character c
RECURSIVE RemoveChar(_, _)
RemoveChar(s, c) ==
    IF s = << >> THEN << >>
    ELSE IF Head(s) = c THEN RemoveChar(Tail(s), c)
    ELSE <<Head(s)>> \o RemoveChar(Tail(s), c)

\* s.split(c)[0], for a one-character c: s up to the first c
RECURSIVE FirstField(_, _)
FirstField(s, c) ==
    IF s = << >> \/ Head(s) = c THEN << >>
    ELSE <<Head(s)>> \o FirstField(Tail(s), c)

\* s[:n]
Prefix(s, n) == SubSeq(s, 1, IF Len(s) < n THEN Len(s) ELSE n)

-----------------------------------------------------------------------------
(* process_chapter_stats, lines 102-120 *)

\* the pattern (?=\*[^\n]+) matches, with empty width, at index p of s: a '*'
\* that is followed by at least one character other than newline
MarkerAt(s, p) ==
    /\ p >= 1
    /\ p + 1 <= Len(s)
    /\ s[p] = "*"
    /\ s[p + 1] # "\n"

\* re.split on that pattern: every match cuts the string in front of it; a
\* match at the very start leaves an empty first piece
RECURSIVE SplitFrom(_, _, _)
SplitFrom(s, p, cur) ==
    IF p > Len(s) THEN <<cur>>
    ELSE IF MarkerAt(s, p) THEN <<cur>> \o SplitFrom(s, p + 1, <<s[p]>>)
    ELSE SplitFrom(s, p + 1, Append(cur, s[p]))

ReSplit(s) == SplitFrom(s, 1, << >>)

\* lines[0].replace('*', '').strip(), lines 109-110
Title(chapter) == Strip(RemoveChar(FirstField(chapter, "\n"), "*"))

\* line 111
ShortTitle(title) ==
    IF Contains(title, <<" ">>) THEN FirstField(title, " ") ELSE Prefix(title, TitleCut)

\* the inner loop over loc["aliases"], lines 115-117
RECURSIVE AliasSum(_, _, _)
AliasSum(chapter, aliases, i) ==
    IF i > Len(aliases) THEN 0
    ELSE StrCount(chapter, aliases[i]) + AliasSum(chapter, aliases, i + 1)

LocCount(chapter, loc) == AliasSum(chapter, loc.aliases, 1)

\* the loop over LOCATIONS_DB, lines 114-118: row[loc["name"]] = count
RECURSIVE FillRow(_, _, _)
FillRow(row, chapter, i) ==
    IF i > Len(LOCATIONS_DB) THEN row
    ELSE LET loc == LOCATIONS_DB[i]
         IN  FillRow((loc.name :> LocCount(chapter, loc)) @@ row, chapter, i + 1)

\* the row of one chapter, lines 109-118
Row(chapter) ==
    LET title == Title(chapter)
    IN  FillRow(("Chapter" :> ShortTitle(title)) @@ ("Full_Title" :> title), chapter, 1)

\* a chapter that forgets to strip: only the empty piece is skipped
IsBlank_NoStrip(chapter) == chapter = << >>

\* the test of line 108
IsBlank(chapter) == Strip(chapter) = << >>

\* inserts the row at the front
AppendRow_Front(data, row) == <<row>> \o data

\* chapter_data.append(row), line 119
AppendRow(data, row) == Append(data, row)

\* line 105 and 106
Split ==
    /\ pc = "split"
    /\ chapters' = ReSplit(text)
    /\ chapter_data' = << >>
    /\ origin' = << >>
    /\ ci' = 1
    /\ pc' = "loop"
    /\ UNCHANGED <<text, diskVars, cacheVars, runVars, searchVars>>

\* line 108: continue
LoopSkip ==
    /\ pc = "loop"
    /\ ci <= Len(chapters)
    /\ IsBlank(chapters[ci])
    /\ ci' = ci + 1
    /\ UNCHANGED <<text, pc, chapters, chapter_data, origin>>
    /\ UNCHANGED <<diskVars, cacheVars, runVars, searchVars>>

\* lines 109-119: one iteration that appends a row
LoopRow ==
    /\ pc = "loop"
    /\ ci <= Len(chapters)
    /\ ~IsBlank(chapters[ci])
    /\ chapter_data' = AppendRow(chapter_data, Row(chapters[ci]))
    /\ origin' = AppendRow(origin, ci)
    /\ ci' = ci + 1
    /\ UNCHANGED <<text, pc, chapters>>
    /\ UNCHANGED <<diskVars, cacheVars, runVars, searchVars>>

\* line 120
Return ==
    /\ pc = "loop"
    /\ ci > Len(chapters)
    /\ pc' = "done"
    /\ UNCHANGED <<text, chapters, ci, chapter_data, origin>>
    /\ UNCHANGED <<diskVars, cacheVars, runVars, searchVars>>

\* process_chapter_stats as one call: the loop of lines 107-119 from piece i
RECURSIVE StatsLoop(_, _, _)
StatsLoop(pieces, i, data) ==
    IF i > Len(pieces) THEN data
    ELSE IF IsBlank(pieces[i]) THEN StatsLoop(pieces, i + 1, data)
    ELSE StatsLoop(pieces, i + 1, AppendRow(data, Row(pieces[i])))

ProcessChapterStats(t) == StatsLoop(ReSplit(t), 1, << >>)

-----------------------------------------------------------------------------
(* Keyword search of the Insights tab, lines 276-290 *)

\* "if count >= 3: break", line 289
MaxShown == 3

\* the default value of the text_input, line 278: U+897F U+6E56
DefaultTerm == <<"u897f", "u6e56">>

\* s.replace(old, ""), for a non-empty old
RECURSIVE RemoveAll(_, _)
RemoveAll(s, old) ==
    IF s = << >> THEN << >>
    ELSE IF OccursAt(s, old, 1) THEN RemoveAll(SubSeq(s, Len(old) + 1, Len(s)), old)
    ELSE <<Head(s)>> \o RemoveAll(Tail(s), old)

\* s.split(sep), for a non-empty sep
RECURSIVE SplitOnFrom(_, _, _)
SplitOnFrom(s, sep, cur) ==
    IF s = << >> THEN <<cur>>
    ELSE IF OccursAt(s, sep, 1)
         THEN <<cur>> \o SplitOnFrom(SubSeq(s, Len(sep) + 1, Len(s)), sep, << >>)
    ELSE SplitOnFrom(Tail(s), sep, Append(cur, Head(s)))

SplitOn(s, sep) == SplitOnFrom(s, sep, << >>)

\* lines 281-282: "\\r" and "\\n" in the source are a backslash followed by
\* a letter; the split on the newline character is the fallback
Paragraphs(t) ==
    LET literal == SplitOn(RemoveAll(t, <<"\\", "r">>), <<"\\", "n">>)
    IN  IF Len(literal) < 2 THEN SplitOn(t, <<"\n">>) ELSE literal

\* displays every matching paragraph
RECURSIVE SearchLoop_NoBreak(_, _, _, _)
SearchLoop_NoBreak(paragraphs, term, i, out) ==
    IF i > Len(paragraphs) THEN out
    ELSE SearchLoop_NoBreak(paragraphs, term, i + 1,
             IF Contains(paragraphs[i], term) THEN Append(out, Strip(paragraphs[i])) ELSE out)

\* the loop of lines 284-289 from paragraph i; out holds the paragraphs
\* displayed so far, and count of the source is Len(out)
RECURSIVE SearchLoop(_, _, _, _)
SearchLoop(paragraphs, term, i, out) ==
    IF i > Len(paragraphs) THEN out
    ELSE IF Contains(paragraphs[i], term)
         THEN LET out2 == Append(out, Strip(paragraphs[i]))
              IN  IF Len(out2) >= MaxShown THEN out2
                  ELSE SearchLoop(paragraphs, term, i + 1, out2)
    ELSE SearchLoop(paragraphs, term, i + 1, out)

WarnNoContent == "warning: No relevant content found."

\* never warns
SearchWarning_Never(term, out) == {}

\* line 290, inside the "if search_term:" of line 280
SearchWarning(term, out) ==
    IF term # << >> /\ Len(out) = 0 THEN {WarnNoContent} ELSE {}

\* lines 280-289: what the search displays for a corpus text and a term
SearchShown(t, term) ==
    IF term # << >> THEN SearchLoop(Paragraphs(t), term, 1, << >>) ELSE << >>

-----------------------------------------------------------------------------
(* The script run: loaders, mandatory-file check, sidebar and tabs *)

ErrMissingBasic == "error: Missing basic data files."
ErrExcelRead == "error: Failed to read Excel"
WarnNoExcel == "warning: Chapter plot Excel file not found"
ErrColumns == "error: Excel file column names do not match."
ErrEnsureUploaded == "error: Please ensure 'chapter_data.xlsx' is uploaded."

\* the columns the message of line 235 names
RequiredColumns == {"CHAPTER", "CHARACTERS", "MAIN PLOTS", "SUMMARY"}

\* Python None where a str is expected, and a name not yet assigned
NoneStr == <<"None">>
UnsetStr == <<"unset">>

\* a DataFrame read from the spreadsheet, and None in its place
Frame(columns, rows) == [none |-> FALSE, columns |-> columns, rows |-> rows]
NoneFrame == [none |-> TRUE, columns |-> {}, rows |-> 0]
UnsetFrame == [none |-> TRUE, columns |-> {"unset"}, rows |-> 0]

\* load_map_data without the decorator, lines 80-81
ReadMap(file) == IF ~file THEN "None" ELSE "DataFrame"

\* load_text_data without the decorator, lines 86-88
ReadText(file) == IF ~file.exists THEN NoneStr ELSE file.content

\* load_chapter_info without the decorator, lines 93-99: the value returned
\* and the st.error it showed
ReadInfo(file) ==
    IF file.kind = "absent" THEN [value |-> NoneFrame, shown |-> {}]
    ELSE IF file.kind = "corrupt" THEN [value |-> NoneFrame, shown |-> {ErrExcelRead}]
    ELSE [value |-> Frame(file.columns, file.rows), shown |-> {}]

\* @st.cache_data on a function without arguments, lines 78, 84, 91: the
\* stored result if there is one, else the result of the call
Memoized(cache, fresh) == IF cache # {} THEN CHOOSE r \in cache : TRUE ELSE fresh

\* halts only when both are None
MissingBasic_Both(m, t) == m = "None" /\ t = NoneStr

\* the condition of line 129
MissingBasic(m, t) == m = "None" \/ t = NoneStr

Finished == {"done", "stopped", "crashed"}

\* the first request, or a user interaction, starts a run of the whole
\* script; an interaction may have changed the term in the text_input
Rerun ==
    /\ pc_r \in Finished \cup {"idle"}
    /\ IF pc_r = "idle"
       THEN search_term' = search_term
       ELSE \E t \in {search_term, << >>, DefaultTerm} : search_term' = t
    /\ pc_r' = "load_map"
    /\ first_run' = (pc_r = "idle")
    /\ df_map' = "unset"
    /\ full_text' = UnsetStr
    /\ df_info' = UnsetFrame
    /\ df_stats' = << >>
    /\ stats_invoked' = FALSE
    /\ messages' = {}
    /\ panels' = {}
    /\ exception' = "none"
    /\ details' = {}
    /\ shown' = << >>
    /\ UNCHANGED <<statsVars, diskVars, cacheVars, pc_s>>

\* line 124
LoadMap ==
    /\ pc_r = "load_map"
    /\ df_map' = Memoized(cache_map, ReadMap(csv_file))
    /\ cache_map' = {df_map'}
    /\ pc_r' = "load_text"
    /\ UNCHANGED <<statsVars, diskVars, cache_text, cache_info, searchVars>>
    /\ UNCHANGED <<first_run, full_text, df_info, df_stats, stats_invoked, messages,
                   panels, exception, details>>

\* line 125
LoadText ==
    /\ pc_r = "load_text"
    /\ full_text' = Memoized(cache_text, ReadText(txt_file))
    /\ cache_text' = {full_text'}
    /\ pc_r' = "load_info"
    /\ UNCHANGED <<statsVars, diskVars, cache_map, cache_info, searchVars>>
    /\ UNCHANGED <<first_run, df_map, df_info, df_stats, stats_invoked, messages,
                   panels, exception, details>>

\* line 126; a stored result replays the st.error of line 98
LoadInfo ==
    /\ pc_r = "load_info"
    /\ LET r == Memoized(cache_info, ReadInfo(xlsx_file))
       IN  /\ df_info' = r.value
           /\ messages' = messages \cup r.shown
           /\ cache_info' = {r}
    /\ pc_r' = "check"
    /\ UNCHANGED <<statsVars, diskVars, cache_map, cache_text, searchVars>>
    /\ UNCHANGED <<first_run, df_map, full_text, df_stats, stats_invoked, panels,
                   exception, details>>

\* lines 129-131: st.error and st.stop
CheckStop ==
    /\ pc_r = "check"
    /\ MissingBasic(df_map, full_text)
    /\ messages' = messages \cup {ErrMissingBasic}
    /\ pc_r' = "stopped"
    /\ UNCHANGED <<statsVars, diskVars, cacheVars, searchVars>>
    /\ UNCHANGED <<first_run, df_map, full_text, df_info, df_stats, stats_invoked,
                   panels, exception, details>>

\* line 129 false, then line 133
CheckPass ==
    /\ pc_r = "check"
    /\ ~MissingBasic(df_map, full_text)
    /\ df_stats' = ProcessChapterStats(full_text)
    /\ stats_invoked' = TRUE
    /\ pc_r' = "sidebar"
    /\ UNCHANGED <<statsVars, diskVars, cacheVars, searchVars>>
    /\ UNCHANGED <<first_run, df_map, full_text, df_info, messages, panels, exception,
                   details>>

\* lines 139-166: title, sidebar, st.tabs
Sidebar ==
    /\ pc_r = "sidebar"
    /\ messages' = messages \cup (IF df_info.none THEN {WarnNoExcel} ELSE {})
    /\ pc_r' = "tab_map"
    /\ UNCHANGED <<statsVars, diskVars, cacheVars, searchVars>>
    /\ UNCHANGED <<first_run, df_map, full_text, df_info, df_stats, stats_invoked,
                   panels, exception, details>>

\* lines 169-194
TabMap ==
    /\ pc_r = "tab_map"
    /\ panels' = panels \cup {"Map"}
    /\ pc_r' = "tab_trend"
    /\ UNCHANGED <<statsVars, diskVars, cacheVars, searchVars>>
    /\ UNCHANGED <<first_run, df_map, full_text, df_info, df_stats, stats_invoked,
                   messages, exception, details>>

\* lines 197-207; a DataFrame built from an empty list has no columns, and
\* melt raises KeyError for the id_vars it does not find
TabTrend ==
    /\ pc_r = "tab_trend"
    /\ panels' = panels \cup {"Trend"}
    /\ IF df_stats = << >>
       THEN exception' = "KeyError" /\ pc_r' = "crashed"
       ELSE exception' = exception /\ pc_r' = "tab_details"
    /\ UNCHANGED <<statsVars, diskVars, cacheVars, searchVars>>
    /\ UNCHANGED <<first_run, df_map, full_text, df_info, df_stats, stats_invoked,
                   messages, details>>

\* chapter_row.get(column, 'No Data'), lines 224, 229, 233
Field(frame, column) ==
    <<column, IF column \in frame.columns THEN "value" ELSE "No Data">>

\* lines 210-237
TabDetails ==
    /\ pc_r = "tab_details"
    /\ panels' = panels \cup {"Details"}
    /\ IF df_info.none
       THEN /\ messages' = messages \cup {ErrEnsureUploaded}
            /\ UNCHANGED <<details, exception>>
            /\ pc_r' = "tab_insight"
       ELSE IF "CHAPTER" \notin df_info.columns
       THEN /\ messages' = messages \cup {ErrColumns}
            /\ UNCHANGED <<details, exception>>
            /\ pc_r' = "tab_insight"
       ELSE IF df_info.rows = 0
       THEN \* the selectbox has no option, and .iloc[0] of line 218 raises
            /\ exception' = "IndexError"
            /\ UNCHANGED <<details, messages>>
            /\ pc_r' = "crashed"
       ELSE /\ details' = {Field(df_info, c) : c \in {"CHARACTERS", "MAIN PLOTS", "SUMMARY"}}
            /\ UNCHANGED <<messages, exception>>
            /\ pc_r' = "tab_insight"
    /\ UNCHANGED <<statsVars, diskVars, cacheVars, searchVars>>
    /\ UNCHANGED <<first_run, df_map, full_text, df_info, df_stats, stats_invoked>>

\* lines 240-290
TabInsight ==
    /\ pc_r = "tab_insight"
    /\ panels' = panels \cup {"Insights"}
    /\ shown' = SearchShown(full_text, search_term)
    /\ messages' = messages \cup SearchWarning(search_term, shown')
    /\ pc_r' = "tab_route"
    /\ UNCHANGED <<statsVars, diskVars, cacheVars, search_term, pc_s>>
    /\ UNCHANGED <<first_run, df_map, full_text, df_info, df_stats, stats_invoked,
                   exception, details>>

\* lines 293-353
TabRoute ==
    /\ pc_r = "tab_route"
    /\ panels' = panels \cup {"Route"}
    /\ pc_r' = "done"
    /\ UNCHANGED <<statsVars, diskVars, cacheVars, searchVars>>
    /\ UNCHANGED <<first_run, df_map, full_text, df_info, df_stats, stats_invoked,
                   messages, exception, details>>

-----------------------------------------------------------------------------
(* The files on disk, which change only between two runs *)

\* most rows of a spreadsheet
MaxRows == 1

\* corpus files of the script run: empty, one chapter naming U+897F U+6E56,
\* one chapter naming neither alias
RunTexts == {<< >>, <<"*", "u897f", "u6e56", "\n">>, <<"*", "u5dde">>}

TxtFiles ==
    {[exists |-> FALSE, content |-> << >>]} \cup
    {[exists |-> TRUE, content |-> t] : t \in RunTexts}

\* the column sets of the spreadsheets: complete, without CHAPTER, without
\* SUMMARY
SheetColumns ==
    {RequiredColumns, RequiredColumns \ {"CHAPTER"}, RequiredColumns \ {"SUMMARY"}}

XlsxFiles ==
    {[kind |-> k, columns |-> {}, rows |-> 0] : k \in {"absent", "corrupt"}} \cup
    {[kind |-> "sheet", columns |-> c, rows |-> n] : c \in SheetColumns, n \in 0..MaxRows}

CsvChange ==
    /\ pc_r \in Finished
    /\ csv_file' = ~csv_file
    /\ UNCHANGED <<statsVars, txt_file, xlsx_file, cacheVars, runVars, searchVars>>

TxtChange ==
    /\ pc_r \in Finished
    /\ \E f \in TxtFiles \ {txt_file} : txt_file' = f
    /\ UNCHANGED <<statsVars, csv_file, xlsx_file, cacheVars, runVars, searchVars>>

XlsxChange ==
    /\ pc_r \in Finished
    /\ \E f \in XlsxFiles \ {xlsx_file} : xlsx_file' = f
    /\ UNCHANGED <<statsVars, csv_file, txt_file, cacheVars, runVars, searchVars>>

-----------------------------------------------------------------------------
(* The keyword search alone, for any corpus text *)

\* most lines of a corpus text made of lines
MaxLines == 5

\* most pieces of a corpus text that holds backslash sequences
MaxPieces == 4

LineBodies == {<< >>, <<"a">>, <<" ", "a">>, <<"a", " ">>, <<" ">>}

Pieces == {<<"a">>, <<" ">>, <<"\n">>, <<"\\", "n">>, <<"\\", "r">>, <<"\\">>}

RECURSIVE Join(_, _)
Join(parts, sep) ==
    IF parts = << >> THEN << >>
    ELSE IF Len(parts) = 1 THEN parts[1]
    ELSE parts[1] \o sep \o Join(Tail(parts), sep)

SearchTexts ==
    {Join(ls, <<"\n">>) : ls \in SeqsUpTo(LineBodies, MaxLines)} \cup
    {Join(ps, << >>) : ps \in SeqsUpTo(Pieces, MaxPieces)}

SearchTerms == {<< >>, <<"a">>, <<"a", " ">>, <<" ">>, DefaultTerm}

\* the user types a term; the script runs again and reaches line 278
SearchInput ==
    /\ pc_s \in {"input", "shown"}
    /\ \E t \in SearchTerms \ {search_term} : search_term' = t
    /\ shown' = << >>
    /\ messages' = {}
    /\ pc_s' = "input"
    /\ UNCHANGED <<statsVars, diskVars, cacheVars>>
    /\ UNCHANGED <<pc_r, first_run, df_map, full_text, df_info, df_stats, stats_invoked,
                   panels, exception, details>>

\* lines 280-290
SearchRun ==
    /\ pc_s = "input"
    /\ shown' = SearchShown(full_text, search_term)
    /\ messages' = SearchWarning(search_term, shown')
    /\ pc_s' = "shown"
    /\ UNCHANGED <<statsVars, diskVars, cacheVars, search_term>>
    /\ UNCHANGED <<pc_r, first_run, df_map, full_text, df_info, df_stats, stats_invoked,
                   panels, exception, details>>

-----------------------------------------------------------------------------
(* Specifications *)

StatsOff ==
    /\ text = << >>
    /\ pc = "off"
    /\ chapters = << >>
    /\ ci = 0
    /\ chapter_data = << >>
    /\ origin = << >>

DiskOff ==
    /\ csv_file = TRUE
    /\ txt_file = [exists |-> TRUE, content |-> << >>]
    /\ xlsx_file = [kind |-> "absent", columns |-> {}, rows |-> 0]
    /\ cache_map = {}
    /\ cache_text = {}
    /\ cache_info = {}

RunFresh ==
    /\ first_run = FALSE
    /\ df_map = "unset"
    /\ full_text = UnsetStr
    /\ df_info = UnsetFrame
    /\ df_stats = << >>
    /\ stats_invoked = FALSE
    /\ messages = {}
    /\ panels = {}
    /\ exception = "none"
    /\ details = {}
    /\ shown = << >>

\* process_chapter_stats on every corpus text within the bounds
InitStats ==
    /\ text \in StatsTexts
    /\ pc = "split"
    /\ chapters = << >>
    /\ ci = 0
    /\ chapter_data = << >>
    /\ origin = << >>
    /\ DiskOff
    /\ RunFresh
    /\ pc_r = "off"
    /\ pc_s = "off"
    /\ search_term = DefaultTerm

NextStats == Split \/ LoopSkip \/ LoopRow \/ Return

SpecStats == InitStats /\ [][NextStats]_vars

\* a process that starts with empty caches and any files on disk, and runs
\* the script again and again while the files change in between
InitRun ==
    /\ StatsOff
    /\ csv_file \in BOOLEAN
    /\ txt_file \in TxtFiles
    /\ xlsx_file \in XlsxFiles
    /\ cache_map = {}
    /\ cache_text = {}
    /\ cache_info = {}
    /\ RunFresh
    /\ pc_r = "idle"
    /\ pc_s = "off"
    /\ search_term = DefaultTerm

NextRun ==
    \/ Rerun \/ LoadMap \/ LoadText \/ LoadInfo \/ CheckStop \/ CheckPass
    \/ Sidebar \/ TabMap \/ TabTrend \/ TabDetails \/ TabInsight \/ TabRoute
    \/ CsvChange \/ TxtChange \/ XlsxChange

SpecRender == InitRun /\ [][NextRun]_vars

\* the keyword search on every corpus text within the bounds
InitSearch ==
    /\ StatsOff
    /\ DiskOff
    /\ first_run = FALSE
    /\ df_map = "DataFrame"
    /\ full_text \in SearchTexts
    /\ df_info = NoneFrame
    /\ df_stats = << >>
    /\ stats_invoked = FALSE
    /\ messages = {}
    /\ panels = {}
    /\ exception = "none"
    /\ details = {}
    /\ shown = << >>
    /\ pc_r = "off"
    /\ pc_s = "input"
    /\ search_term = DefaultTerm

NextSearch == SearchInput \/ SearchRun

SpecSearch == InitSearch /\ [][NextSearch]_vars

-----------------------------------------------------------------------------
(* Properties of process_chapter_stats *)

RECURSIVE SumLen(_, _)
SumLen(pieces, j) == IF j = 0 THEN 0 ELSE Len(pieces[j]) + SumLen(pieces, j - 1)

\* the span of text that piece j of the split covers
SegStart(j) == 1 + SumLen(chapters, j - 1)
SegEnd(j) == SumLen(chapters, j)
TextSpan(j) == SubSeq(text, SegStart(j), SegEnd(j))

\* the pieces tile the text, in order and without gaps
PiecesTileText ==
    /\ SegEnd(Len(chapters)) = Len(text)
    /\ \A j \in 1..Len(chapters) : chapters[j] = TextSpan(j)

\* the largest number of pairwise non-overlapping occurrences of sub in s
NonOverlapping(s, sub) ==
    LET occ == {p \in 1..(Len(s) - Len(sub) + 1) : SubSeq(s, p, p + Len(sub) - 1) = sub}
        disjoint(P) == \A p, q \in P : p < q => q - p >= Len(sub)
        sizes == {Cardinality(P) : P \in {Q \in SUBSET occ : disjoint(Q)}}
    IN  IF occ = {} THEN 0 ELSE CHOOSE n \in sizes : \A m \in sizes : m <= n

RECURSIVE SumNonOverlapping(_, _, _)
SumNonOverlapping(s, aliases, i) ==
    IF i = 0 THEN 0
    ELSE NonOverlapping(s, aliases[i]) + SumNonOverlapping(s, aliases, i - 1)

\* index p of the text starts a line that begins with '*' followed by a
\* character other than newline
LineStartMarker(p) ==
    /\ p \in 1..(Len(text) - 1)
    /\ text[p] = "*"
    /\ text[p + 1] # "\n"
    /\ p = 1 \/ text[p - 1] = "\n"

\* C1: in every chapter record, the value under each location's name is the
\* sum over that location's aliases of the number of non-overlapping
\* occurrences of the alias in the span of the text the record's segment covers
C1_CountsMatchSegment ==
    pc = "done" =>
        /\ PiecesTileText
        /\ \A k \in 1..Len(chapter_data) : \A i \in 1..Len(LOCATIONS_DB) :
               LET loc == LOCATIONS_DB[i]
               IN  chapter_data[k][loc.name] =
                       SumNonOverlapping(TextSpan(origin[k]), loc.aliases, Len(loc.aliases))

\* C1 witness: two chapters, each a line that starts with the marker; the
\* first holds one alias of Hangzhou (U+897F U+6E56) and the second none;
\* the records say 1 and 0
C1_Witness ==
    /\ pc = "done"
    /\ Len(chapter_data) = 2
    /\ LineStartMarker(SegStart(origin[1]))
    /\ LineStartMarker(SegStart(origin[2]))
    /\ Contains(TextSpan(origin[1]), <<"u897f", "u6e56">>)
    /\ chapter_data[1]["Hangzhou"] = 1
    /\ chapter_data[2]["Hangzhou"] = 0

\* the title of record k stands in the text at index p, inside the span of
\* the record's segment
TitleAt(k, p) ==
    LET title == chapter_data[k]["Full_Title"]
    IN  /\ SegStart(origin[k]) <= p
        /\ p + Len(title) - 1 <= SegEnd(origin[k])
        /\ OccursAt(text, title, p)

\* the pieces of the split that hold a character other than whitespace
DetectedChapters ==
    {j \in 1..Len(chapters) : \E p \in SegStart(j)..SegEnd(j) : ~IsSpace(text[p])}

\* C2: one record per detected chapter, in source order: the records
\* returned come from the detected chapters in increasing order, each once,
\* and the title of a record stands in the text before the title of the
\* next record
C2_RecordsInSourceOrder ==
    pc = "done" =>
        /\ \A k \in 1..Len(origin) : origin[k] \in DetectedChapters
        /\ \A k \in 1..(Len(origin) - 1) : origin[k] < origin[k + 1]
        /\ Len(chapter_data) = Len(origin)
        /\ \A j \in DetectedChapters : \E k \in 1..Len(origin) : origin[k] = j
        /\ \A k \in 1..Len(chapter_data) : \E p \in 1..(Len(text) + 1) : TitleAt(k, p)
        /\ \A k \in 1..(Len(chapter_data) - 1) :
               \E p, q \in 1..(Len(text) + 1) :
                   /\ TitleAt(k, p)
                   /\ TitleAt(k + 1, q)
                   /\ p < q
                   /\ p + Len(chapter_data[k]["Full_Title"]) <= q

\* C2 witness: three records with three different titles
C2_Witness ==
    /\ pc = "done"
    /\ Len(chapter_data) = 3
    /\ chapter_data[1]["Full_Title"] # chapter_data[2]["Full_Title"]
    /\ chapter_data[2]["Full_Title"] # chapter_data[3]["Full_Title"]
    /\ chapter_data[1]["Full_Title"] # chapter_data[3]["Full_Title"]

\* C5: a piece of the split that is empty or only whitespace yields no
\* record, and every record returned comes from a piece that holds a
\* character other than whitespace
C5_NoRecordFromBlankSegment ==
    pc = "done" =>
        /\ \A j \in 1..Len(chapters) :
               (\A p \in SegStart(j)..SegEnd(j) : IsSpace(text[p])) =>
                   \A k \in 1..Len(origin) : origin[k] # j
        /\ \A k \in 1..Len(chapter_data) :
               \E p \in SegStart(origin[k])..SegEnd(origin[k]) : ~IsSpace(text[p])

\* C5 witness: the first piece is whitespace, non-empty, was skipped, and a
\* later piece gave the only record
C5_Witness ==
    /\ pc = "done"
    /\ Len(chapters) = 2
    /\ chapters[1] # << >>
    /\ \A p \in 1..Len(chapters[1]) : IsSpace(chapters[1][p])
    /\ origin = <<2>>

\* the indices of the text in front of which the split has cut
Boundaries == {SegStart(j) : j \in 2..Len(chapters)}

\* C9: the split cuts in front of an index exactly when that index starts a
\* line beginning with the marker; a '*' inside a line, or directly after
\* another '*', starts no segment and no record
C9_BoundaryIffLineStartMarker ==
    pc # "split" =>
        /\ Boundaries = {p \in 1..Len(text) : LineStartMarker(p)}
        /\ \A k \in 1..Len(origin) :
               origin[k] >= 2 => LineStartMarker(SegStart(origin[k]))

\* C10: the text in front of the first marker gives no record and is
\* counted in no record: every record's segment starts at a marker
C10_PrefixDropped ==
    pc # "split" =>
        \A k \in 1..Len(origin) : MarkerAt(text, SegStart(origin[k]))

-----------------------------------------------------------------------------
(* Properties of the script run *)

\* the statements behind the check of line 129
PastCheck == {"sidebar", "tab_map", "tab_trend", "tab_details", "tab_insight", "tab_route"}

AllPanels == {"Map", "Trend", "Details", "Insights", "Route"}

\* C3: when load_map_data or load_text_data returned None, the error of
\* line 130 is shown, the run has stopped, process_chapter_stats was not
\* called and no tab was entered; a run stops only for that reason, so not
\* for a missing spreadsheet; and in the first run of a process, where the
\* loaders read the disk, the run gets past the check only with both files
C3_MissingMandatoryHalts ==
    /\ (pc_r \in PastCheck \cup Finished /\ (df_map = "None" \/ full_text = NoneStr)) =>
           /\ pc_r = "stopped"
           /\ ErrMissingBasic \in messages
           /\ ~stats_invoked
           /\ panels = {}
    /\ pc_r = "stopped" => (df_map = "None" \/ full_text = NoneStr)
    /\ (pc_r \in PastCheck \cup Finished /\ df_map # "None" /\ full_text # NoneStr) =>
           stats_invoked
    /\ (first_run /\ pc_r \in PastCheck) => (csv_file /\ txt_file.exists)

\* C3 witness: the text file was missing, the CSV was there, the run stopped
C3_Witness ==
    /\ pc_r = "stopped"
    /\ full_text = NoneStr
    /\ df_map = "DataFrame"
    /\ ErrMissingBasic \in messages
    /\ panels = {}

\* the spreadsheet that was loaded lacks a required column or has no rows
Malformed(frame) ==
    /\ ~frame.none
    /\ ~(RequiredColumns \subseteq frame.columns) \/ frame.rows = 0

\* C7: after the Details tab, if the spreadsheet could not be read or is
\* malformed, the tab shows an error and no chapter, no exception ended the
\* run, and a run that ends has entered all five tabs
C7_MalformedSheetDegrades ==
    (/\ pc_r \in {"tab_insight", "tab_route", "done", "crashed"}
     /\ "Details" \in panels
     /\ ErrExcelRead \in messages \/ Malformed(df_info)) =>
        /\ ErrColumns \in messages \/ ErrEnsureUploaded \in messages
        /\ details = {}
        /\ exception = "none"
        /\ pc_r = "done" => panels = AllPanels

\* C8: right after each loader call, the result is None exactly when the
\* file is absent, and is the content of the file when it is present
C8_LoaderReflectsFile ==
    /\ pc_r = "load_text" =>
           (df_map = "None" <=> ~csv_file)
    /\ pc_r = "load_info" =>
           /\ full_text = NoneStr <=> ~txt_file.exists
           /\ txt_file.exists => full_text = txt_file.content
    /\ pc_r = "check" =>
           /\ xlsx_file.kind = "absent" => df_info.none
           /\ xlsx_file.kind = "sheet" => df_info = Frame(xlsx_file.columns, xlsx_file.rows)

\* no paragraph of the text holds the term
NoMatch(t, term) ==
    \A i \in 1..Len(Paragraphs(t)) : ~Contains(Paragraphs(t)[i], term)

\* C6 as stated: after the search section, an empty term and a term without
\* match have both made the section show its message, and a run that was
\* stopped or ended by an exception never entered the Insights tab
C6_MessageForEmptyAndNoMatch ==
    /\ (pc_r \in {"tab_route", "done"} /\ (search_term = << >> \/ NoMatch(full_text, search_term))) =>
           WarnNoContent \in messages
    /\ pc_r \in {"stopped", "crashed"} => "Insights" \notin panels

\* C6 amended: a non-empty term without match makes the section show the
\* warning of line 290 and no paragraph; an empty term makes it show neither
\* a paragraph nor a message; the warning is shown in no other case; a run
\* that was stopped or ended by an exception never entered the Insights tab
C6_WarningOnlyForNoMatch ==
    /\ pc_r \in {"tab_route", "done"} =>
           /\ WarnNoContent \in messages <=>
                  (search_term # << >> /\ NoMatch(full_text, search_term))
           /\ (search_term = << >> \/ NoMatch(full_text, search_term)) => shown = << >>
    /\ pc_r \in {"stopped", "crashed"} => "Insights" \notin panels

\* C6 witness: a run that ended after a search with a non-empty term that
\* matched nothing, with the warning shown
C6_Witness ==
    /\ pc_r = "done"
    /\ search_term # << >>
    /\ NoMatch(full_text, search_term)
    /\ WarnNoContent \in messages
    /\ shown = << >>

-----------------------------------------------------------------------------
(* Properties of the keyword search *)

\* the indices of the paragraphs that hold the term
Matching(paragraphs, term) ==
    {i \in 1..Len(paragraphs) : Contains(paragraphs[i], term)}

\* the number of matching paragraphs in front of paragraph i
Rank(paragraphs, term, i) ==
    Cardinality({j \in Matching(paragraphs, term) : j < i})

\* what is displayed is, in order, the first three matching paragraphs, or
\* all of them if they are fewer, each without its outer whitespace
ShowsFirstMatches ==
    LET paragraphs == Paragraphs(full_text)
        first == {i \in Matching(paragraphs, search_term) :
                      Rank(paragraphs, search_term, i) < 3}
    IN  /\ Len(shown) <= 3
        /\ Len(shown) = Cardinality(first)
        /\ \A i \in first :
               shown[Rank(paragraphs, search_term, i) + 1] = Strip(paragraphs[i])

\* C4 as stated: for a non-empty term the search displays at most 3
\* paragraphs, the first matching ones in their order, and every displayed
\* paragraph holds the term
C4_DisplayedHoldTerm ==
    (pc_s = "shown" /\ search_term # << >>) =>
        /\ ShowsFirstMatches
        /\ \A k \in 1..Len(shown) : Contains(shown[k], search_term)

\* C4 amended: for a non-empty term the search displays at most 3
\* paragraphs, the first matching ones in their order, each a paragraph that
\* holds the term, displayed without its leading and trailing whitespace;
\* the displayed text holds the term when the term neither begins nor ends
\* with whitespace
C4_DisplayedAreStrippedMatches ==
    (pc_s = "shown" /\ search_term # << >>) =>
        /\ ShowsFirstMatches
        /\ (~IsSpace(search_term[1]) /\ ~IsSpace(search_term[Len(search_term)])) =>
               \A k \in 1..Len(shown) : Contains(shown[k], search_term)

\* C4 witness: more than three paragraphs hold the term and three are shown
C4_Witness ==
    /\ pc_s = "shown"
    /\ search_term # << >>
    /\ Cardinality(Matching(Paragraphs(full_text), search_term)) > 3
    /\ Len(shown) = 3

====
